---------------------------- MODULE Spec2Model ----------------------------
(***************************************************************************)
(* A model of app.py, the Streamlit transcription script.                  *)
(*                                                                         *)
(* Strings are sequences of one-character strings, so that formatting,     *)
(* stripping, truncation and concatenation are computed as Python computes *)
(* them.  Durations are whole numbers of milliseconds.                     *)
(*                                                                         *)
(* Two specifications share the variables:                                 *)
(*   SpecCore - the subtitle functions (create_subtitle_timestamps,        *)
(*              generate_srt_content, generate_vtt_content) applied to     *)
(*              segment sequences drawn from bounded sets;                 *)
(*   Spec     - the script under Streamlit's execution model: every widget *)
(*              interaction re-runs the script from the top.               *)
(***************************************************************************)
EXTENDS Integers, Sequences, FiniteSets, TLC

VARIABLES
    pc,            \* position of the script ("idle": waiting for the user)
    ffmpeg,        \* environment: is the ffmpeg executable available now
    file,          \* extension of the uploaded file, or "none"
    widgets,       \* front-end widget state sent with the re-run request
    rendered,      \* widgets the last (or current) run has put on the page
    fs,            \* temporary files that exist on disk
    runs,          \* number of script runs started
    audio_path,    \* script-level name audio_path: "unset" or "wav"
    process_path,  \* script-level name process_path: "unset", "tmp" or "wav"
    transcript,    \* result["text"]
    segments,      \* result["segments"]
    subtitles,     \* subtitles (the cue list)
    srt_content,   \* srt_content
    vtt_content,   \* vtt_content
    messages,      \* st.warning / st.error / st.info / st.success of this run
    downloads,     \* download buttons of this run: label -> data
    trace,         \* the interaction that requested this run, then the
                   \* calls the run has made so far, in order
    userText       \* last text the user typed into the edit area, or NoText

vars == <<pc, ffmpeg, file, widgets, rendered, fs, runs, audio_path,
          process_path, transcript, segments, subtitles, srt_content, vtt_content,
          messages, downloads, trace, userText>>

-----------------------------------------------------------------------------
(* Bounds of the model *)

MaxSegs == 2

MaxRuns == 4

-----------------------------------------------------------------------------
(* Characters and strings *)

NL == "\n"

DigitChars == <<"0", "1", "2", "3", "4", "5", "6", "7", "8", "9">>

IsDigit(c) == \E k \in 1..10 : DigitChars[k] = c

\* the whitespace str.strip() removes (those the model's texts use)
Whitespace == {" ", "\n", "\t"}

Min(a, b) == IF a <= b THEN a ELSE b

\* "%d" % n
RECURSIVE NatToStr(_)
NatToStr(n) ==
    IF n < 10 THEN <<DigitChars[n + 1]>>
    ELSE NatToStr(n \div 10) \o <<DigitChars[(n % 10) + 1]>>

IntToStr(n) == IF n < 0 THEN <<"-">> \o NatToStr(0 - n) ELSE NatToStr(n)

\* "%0<w>d" % n, for n >= 0
RECURSIVE ZeroPad(_, _)
ZeroPad(s, w) == IF Len(s) >= w THEN s ELSE ZeroPad(<<"0">> \o s, w)

\* s.replace(old, new) for one-character old and new
Replace(s, old, new) ==
    [k \in 1..Len(s) |-> IF s[k] = old THEN new ELSE s[k]]

\* s[:n]
Prefix(s, n) == SubSeq(s, 1, Min(n, Len(s)))

\* s.lstrip(), s.rstrip(), s.strip()
RECURSIVE LStrip(_)
LStrip(s) ==
    IF s # <<>> /\ Head(s) \in Whitespace THEN LStrip(Tail(s)) ELSE s

RECURSIVE RStrip(_)
RStrip(s) ==
    IF s # <<>> /\ s[Len(s)] \in Whitespace
    THEN RStrip(SubSeq(s, 1, Len(s) - 1))
    ELSE s

Strip(s) == RStrip(LStrip(s))

-----------------------------------------------------------------------------
(* datetime.timedelta(seconds=...) and its str() *)

MsPerSecond == 1000

MsPerDay == 24 * 60 * 60 * MsPerSecond

\* timedelta raises OverflowError beyond this many days, either sign
MaxTimedeltaDays == 999999999

TimedeltaOverflows(ms) ==
    \/ ms \div MsPerDay > MaxTimedeltaDays
    \/ ms \div MsPerDay < 0 - MaxTimedeltaDays

\* timedelta normalises to days (any sign), 0 <= seconds < 86400 and
\* 0 <= microseconds < 10^6
TimedeltaDays(ms) == ms \div MsPerDay

TimedeltaSeconds(ms) == (ms % MsPerDay) \div MsPerSecond

TimedeltaMicroseconds(ms) == ((ms % MsPerDay) % MsPerSecond) * 1000

\* the "%d day%s, " prefix of timedelta.__str__, for days # 0
DaysPrefixNoSign(days) ==
    IF days = 0 THEN <<>>
    ELSE NatToStr(IF days < 0 THEN 0 - days ELSE days)
         \o <<" ", "d", "a", "y">>
         \o (IF days \in {1, -1} THEN <<>> ELSE <<"s">>)
         \o <<",", " ">>

DaysPrefix(days) ==
    IF days = 0 THEN <<>>
    ELSE IntToStr(days) \o <<" ", "d", "a", "y">>
         \o (IF days \in {1, -1} THEN <<>> ELSE <<"s">>)
         \o <<",", " ">>

\* timedelta.__str__: [D day[s], ]H:MM:SS[.ffffff]
TimedeltaStr(ms) ==
    LET secs == TimedeltaSeconds(ms)
        us   == TimedeltaMicroseconds(ms)
        hh   == secs \div 3600
        mm   == (secs \div 60) % 60
        ss   == secs % 60
    IN  DaysPrefix(TimedeltaDays(ms))
        \o NatToStr(hh) \o <<":">> \o ZeroPad(NatToStr(mm), 2)
        \o <<":">> \o ZeroPad(NatToStr(ss), 2)
        \o (IF us = 0 THEN <<>> ELSE <<".">> \o ZeroPad(NatToStr(us), 6))

\* the slice bound of lines 47-48
TruncLen == 11

\* str(timedelta(seconds=d)).replace('.', ',')[:11]
FormatTimestamp(ms) == Prefix(Replace(TimedeltaStr(ms), ".", ","), TruncLen)


-----------------------------------------------------------------------------
(* The subtitle functions *)

\* the dictionary appended in the loop body of create_subtitle_timestamps,
\* with the enumerate(segments, 1) index taken as 0-based
CueZeroBased(i, segment) ==
    [index |-> i - 1,
     start |-> FormatTimestamp(segment.start),
     end   |-> FormatTimestamp(segment.end),
     text  |-> Strip(segment.text)]

\* the same dictionary with only the leading whitespace of the text removed
CueLStripOnly(i, segment) ==
    [index |-> i,
     start |-> FormatTimestamp(segment.start),
     end   |-> FormatTimestamp(segment.end),
     text  |-> LStrip(segment.text)]

\* the dictionary appended in the loop body of create_subtitle_timestamps
Cue(i, segment) ==
    [index |-> i,
     start |-> FormatTimestamp(segment.start),
     end   |-> FormatTimestamp(segment.end),
     text  |-> Strip(segment.text)]

\* for i, segment in enumerate(segments, 1): subs.append({...})
RECURSIVE CueLoop(_, _, _)
CueLoop(segs, i, subs) ==
    IF i > Len(segs) THEN subs
    ELSE CueLoop(segs, i + 1, Append(subs, Cue(i, segs[i])))

create_subtitle_timestamps(segs) == CueLoop(segs, 1, <<>>)

\* create_subtitle_timestamps has no raise and no try: it fails only where
\* a call it makes fails, and on numbers and strings only timedelta can
Raises(segs) ==
    \E k \in 1..Len(segs) :
        TimedeltaOverflows(segs[k].start) \/ TimedeltaOverflows(segs[k].end)

Arrow == <<" ", "-", "-", ">", " ">>

\* the three += of the loop body of generate_srt_content, without the blank
\* line that ends a cue
SrtBlockNoBlankLine(sub) ==
    IntToStr(sub.index) \o <<NL>>
    \o sub.start \o Arrow \o sub.end \o <<NL>>
    \o sub.text \o <<NL>>

\* the three += of the loop body of generate_srt_content
SrtBlock(sub) ==
    IntToStr(sub.index) \o <<NL>>
    \o sub.start \o Arrow \o sub.end \o <<NL>>
    \o sub.text \o <<NL, NL>>

RECURSIVE SrtLoop(_, _, _)
SrtLoop(subs, k, acc) ==
    IF k > Len(subs) THEN acc
    ELSE SrtLoop(subs, k + 1, acc \o SrtBlock(subs[k]))

generate_srt_content(subs) == SrtLoop(subs, 1, <<>>)

\* the two += of the loop body of generate_vtt_content, with the index line
\* of the SRT loop kept
VttBlockWithIndex(sub) ==
    IntToStr(sub.index) \o <<NL>>
    \o sub.start \o Arrow \o sub.end \o <<NL>>
    \o sub.text \o <<NL, NL>>

\* the two += of the loop body of generate_vtt_content
VttBlock(sub) ==
    sub.start \o Arrow \o sub.end \o <<NL>>
    \o sub.text \o <<NL, NL>>

VttHeader == <<"W", "E", "B", "V", "T", "T", NL, NL>>

RECURSIVE VttLoop(_, _, _)
VttLoop(subs, k, acc) ==
    IF k > Len(subs) THEN acc
    ELSE VttLoop(subs, k + 1, acc \o VttBlock(subs[k]))

generate_vtt_content(subs) == VttLoop(subs, 1, VttHeader)

-----------------------------------------------------------------------------
(* Values shared by the two specifications *)

NoText == <<"<none>">>

NoWidgets == [transcribe |-> FALSE, update |-> FALSE, text |-> NoText]

Event(call, at, ok, path) ==
    [call |-> call, at |-> at, ok |-> ok, path |-> path]

Called(call) == \E k \in 1..Len(trace) : trace[k].call = call

Returned(call) ==
    \E k \in 1..Len(trace) : trace[k].call = call /\ trace[k].ok

-----------------------------------------------------------------------------
(* SpecCore: the subtitle functions on bounded inputs *)

\* start and end, in milliseconds: whole seconds, milliseconds, the
\* ten-hour and one-day boundaries, and negative values
TimePairs ==
    { <<0, 1200>>, <<1200, 3000>>, <<1000, 2500>>, <<5, 999>>,
      <<35999999, 36000000>>, <<36000500, 86400000>>,
      <<86401500, 172800500>>,
      <<-1500, 500>>, <<500, -1>>, <<-86401500, -86400000>> }

Texts ==
    { <<" ", "h", "i", " ">>,
      <<"t", "h", "e", "r", "e">>,
      <<NL, "a", " ", "b", "\t">>,
      <<" ">> }

CoreSegments ==
    { [start |-> p[1], end |-> p[2], text |-> t] : p \in TimePairs, t \in Texts }

SeqsUpTo(S, n) == UNION { [1..k -> S] : k \in 0..n }

CoreInit ==
    /\ segments \in SeqsUpTo(CoreSegments, MaxSegs)
    /\ pc = "core"
    /\ ffmpeg = TRUE
    /\ file = "none"
    /\ widgets = NoWidgets
    /\ rendered = {}
    /\ fs = {}
    /\ runs = 0
    /\ audio_path = "unset"
    /\ process_path = "unset"
    /\ transcript = <<>>
    /\ subtitles = <<>>
    /\ srt_content = <<>>
    /\ vtt_content = <<>>
    /\ messages = {}
    /\ downloads = <<>>
    /\ trace = <<>>
    /\ userText = NoText

coreFixed == <<pc, ffmpeg, file, widgets, rendered, fs, runs, audio_path,
               process_path, transcript, segments, messages, downloads,
               userText>>

\* subtitles = create_subtitle_timestamps(result["segments"])
BuildCues ==
    /\ pc = "core"
    /\ ~Called("create_subtitle_timestamps")
    /\ subtitles' = IF Raises(segments) THEN subtitles
                    ELSE create_subtitle_timestamps(segments)
    /\ trace' = Append(trace, Event("create_subtitle_timestamps", 151,
                                    ~Raises(segments), "unset"))
    /\ UNCHANGED <<coreFixed, srt_content, vtt_content>>

\* srt_content = generate_srt_content(subtitles)
SerializeSrt ==
    /\ pc = "core"
    /\ Returned("create_subtitle_timestamps")
    /\ ~Called("generate_srt_content")
    /\ srt_content' = generate_srt_content(subtitles)
    /\ trace' = Append(trace, Event("generate_srt_content", 178, TRUE, "unset"))
    /\ UNCHANGED <<coreFixed, subtitles, vtt_content>>

\* vtt_content = generate_vtt_content(subtitles)
SerializeVtt ==
    /\ pc = "core"
    /\ Returned("create_subtitle_timestamps")
    /\ ~Called("generate_vtt_content")
    /\ vtt_content' = generate_vtt_content(subtitles)
    /\ trace' = Append(trace, Event("generate_vtt_content", 179, TRUE, "unset"))
    /\ UNCHANGED <<coreFixed, subtitles, srt_content>>

CoreNext == BuildCues \/ SerializeSrt \/ SerializeVtt

SpecCore == CoreInit /\ [][CoreNext]_vars

-----------------------------------------------------------------------------
(* Spec: the script under Streamlit's execution model *)

\* type=[...] of st.file_uploader
UploadTypes == {"wav", "mp3", "m4a", "ogg", "mp4", "avi", "mkv", "mov"}

\* extensions of uploaded file names; the uploader matches the extension
\* without regard to case, so a camera's CLIP.MP4 is accepted
UploadExts == UploadTypes \cup {"MP4"}

\* str.lower() on the extensions of the model
Lower(ext) == IF ext = "MP4" THEN "mp4" ELSE ext

\* the tuple test of line 134 with '.mov' left out
IsVideoWithoutMov(ext) == Lower(ext) \in {"mp4", "avi", "mkv"}

\* tmp_file_path.lower().endswith(('.mp4', '.avi', '.mkv', '.mov'))
IsVideo(ext) == Lower(ext) \in {"mp4", "avi", "mkv", "mov"}

\* texts the user types into the edit area
EditTexts == { <<"x">>, <<"1", NL, "x", NL, NL>> }

\* what model.transcribe returns: result["text"] and result["segments"]
Results ==
    { [text |-> <<>>, segments |-> <<>>],
      [text |-> <<" ", "h", "i">>,
       segments |-> << [start |-> 0, end |-> 1200, text |-> <<" ", "h", "i", " ">>] >>],
      [text |-> <<" ", "h", "i", " ", "t", "h", "e", "r", "e">>,
       segments |-> << [start |-> 0, end |-> 1200, text |-> <<" ", "h", "i", " ">>],
                       [start |-> 1200, end |-> 3000, text |-> <<"t", "h", "e", "r", "e">>] >>] }

\* the file tempfile.NamedTemporaryFile creates in run r, and the
\* video_path + ".wav" file of that run
TmpFile(r) == [run |-> r, kind |-> "tmp"]

WavFile(r) == [run |-> r, kind |-> "wav"]

\* the finally block, lines 223-227
Cleanup(files, r, audio) ==
    (files \ {TmpFile(r)})
        \ (IF audio = "wav" /\ WavFile(r) \in files THEN {WavFile(r)} ELSE {})

\* a button reads true only in the run its press triggered, and a widget
\* the run did not put on the page loses its state
WidgetsAfterRun(page) ==
    [transcribe |-> FALSE, update |-> FALSE,
     text |-> IF "edit_area" \in page THEN widgets.text ELSE NoText]

Init ==
    /\ pc = "top"
    /\ ffmpeg \in BOOLEAN
    /\ file = "none"
    /\ widgets = NoWidgets
    /\ rendered = {}
    /\ fs = {}
    /\ runs = 1
    /\ audio_path = "unset"
    /\ process_path = "unset"
    /\ transcript = <<>>
    /\ segments = <<>>
    /\ subtitles = <<>>
    /\ srt_content = <<>>
    /\ vtt_content = <<>>
    /\ messages = {}
    /\ downloads = <<>>
    /\ trace = <<>>
    /\ userText = NoText

runLocals == <<audio_path, process_path, transcript, segments, subtitles,
               srt_content, vtt_content>>

pageOut == <<rendered, messages, downloads>>

\* a widget interaction: the front end sends the widget state and the
\* script is run again from the top
Rerun(w, interaction) ==
    /\ pc = "idle"
    /\ runs < MaxRuns
    /\ widgets' = w
    /\ runs' = runs + 1
    /\ pc' = "top"
    /\ trace' = interaction
    /\ UNCHANGED <<ffmpeg, fs, runLocals, pageOut>>

\* the user uploads a file (line 115)
Upload(ext) ==
    /\ "uploader" \in rendered
    /\ file' = ext
    /\ Rerun(widgets, <<Event("upload", 115, TRUE, "unset")>>)
    /\ UNCHANGED userText

\* the user removes the uploaded file
ClearUpload ==
    /\ "uploader" \in rendered
    /\ file # "none"
    /\ file' = "none"
    /\ Rerun(widgets, <<Event("upload", 115, FALSE, "unset")>>)
    /\ UNCHANGED userText

\* the user presses "Transcribe" (line 124)
PressTranscribe ==
    /\ "transcribe" \in rendered
    /\ Rerun([widgets EXCEPT !.transcribe = TRUE],
             <<Event("press Transcribe", 124, TRUE, "unset")>>)
    /\ UNCHANGED <<file, userText>>

\* the user changes the text of the edit area (line 203)
EditText(t) ==
    /\ "edit_area" \in rendered
    /\ userText' = t
    /\ Rerun([widgets EXCEPT !.text = t],
             <<Event("edit", 203, TRUE, "unset")>>)
    /\ UNCHANGED file

\* the user presses "Update Subtitles" (line 210)
PressUpdate ==
    /\ "update" \in rendered
    /\ Rerun([widgets EXCEPT !.update = TRUE],
             <<Event("press Update Subtitles", 210, TRUE, "unset")>>)
    /\ UNCHANGED <<file, userText>>

\* the user changes the text and presses "Update Subtitles" while the edit
\* area still has the focus: both reach the script in one run
EditAndPressUpdate(t) ==
    /\ {"edit_area", "update"} \subseteq rendered
    /\ userText' = t
    /\ Rerun([widgets EXCEPT !.text = t, !.update = TRUE],
             <<Event("edit", 203, TRUE, "unset"),
               Event("press Update Subtitles", 210, TRUE, "unset")>>)
    /\ UNCHANGED file

\* the user changes the text and presses "Transcribe" while the edit area
\* still has the focus
EditAndPressTranscribe(t) ==
    /\ {"edit_area", "transcribe"} \subseteq rendered
    /\ userText' = t
    /\ Rerun([widgets EXCEPT !.text = t, !.transcribe = TRUE],
             <<Event("edit", 203, TRUE, "unset"),
               Event("press Transcribe", 124, TRUE, "unset")>>)
    /\ UNCHANGED file

\* ffmpeg is installed or removed
EnvChange ==
    /\ ffmpeg' = ~ffmpeg
    /\ UNCHANGED <<pc, file, widgets, fs, runs, runLocals, pageOut, trace, userText>>

\* the run ends: the page is what this run rendered
EndRun(page, msgs, dls) ==
    /\ pc' = "idle"
    /\ rendered' = page
    /\ messages' = msgs
    /\ downloads' = dls
    /\ widgets' = WidgetsAfterRun(page)

\* lines 71-130 and 228-231: the top of the script, in a fresh namespace
RunTop ==
    /\ pc = "top"
    /\ LET msgs == IF ffmpeg THEN {} ELSE {"warning: FFmpeg is not installed"}
           tr   == Append(trace, Event("check_ffmpeg", 85, ffmpeg, "unset"))
       IN  /\ trace' = tr
           /\ audio_path' = "unset"
           /\ process_path' = "unset"
           /\ transcript' = <<>>
           /\ segments' = <<>>
           /\ subtitles' = <<>>
           /\ srt_content' = <<>>
           /\ vtt_content' = <<>>
           /\ IF file = "none"
              THEN /\ EndRun({"uploader"}, msgs \cup {"info: please upload"}, <<>>)
                   /\ fs' = fs
              ELSE IF ~widgets.transcribe
              THEN /\ EndRun({"uploader", "transcribe"},
                             msgs \cup {"info: press Transcribe"}, <<>>)
                   /\ fs' = fs
              ELSE /\ fs' = fs \cup {TmpFile(runs)}
                   /\ pc' = "try"
                   /\ rendered' = {"uploader", "transcribe"}
                   /\ messages' = msgs
                   /\ downloads' = <<>>
                   /\ widgets' = widgets
    /\ UNCHANGED <<ffmpeg, file, runs, userText>>

\* except Exception (lines 218-221) followed by finally (lines 223-227)
Except(hint) ==
    /\ EndRun(rendered,
              messages \cup {"error: An error occurred"}
                  \cup (IF hint THEN {"info: FFmpeg is required"} ELSE {}),
              downloads)
    /\ UNCHANGED <<ffmpeg, file, runs, runLocals, userText>>

\* lines 134-141
HandleVideo ==
    /\ pc = "try"
    /\ IF IsVideo(file)
       THEN /\ trace' = Append(trace, Event("check_ffmpeg", 135, ffmpeg, "unset"))
            /\ IF ~ffmpeg
               THEN \* st.error, st.stop(): not an Exception; finally runs
                    /\ EndRun(rendered,
                              messages \cup {"error: Cannot process video files without FFmpeg"},
                              downloads)
                    /\ fs' = Cleanup(fs, runs, audio_path)
                    /\ UNCHANGED process_path
               ELSE /\ pc' = "extract"
                    /\ UNCHANGED <<fs, process_path, pageOut, widgets>>
       ELSE /\ process_path' = "tmp"
            /\ pc' = "load"
            /\ UNCHANGED <<trace, fs, pageOut, widgets>>
    /\ UNCHANGED <<ffmpeg, file, runs, audio_path, transcript, segments,
                   subtitles, srt_content, vtt_content, userText>>

\* line 138: extract_audio_from_video(tmp_file_path), lines 20-36
ExtractAudio(outcome, hint) ==
    /\ pc = "extract"
    /\ LET called == Append(trace, Event("extract_audio_from_video", 138, TRUE, "tmp"))
           probed == Append(called, Event("check_ffmpeg", 22, ffmpeg, "unset"))
       IN  IF ~ffmpeg
           THEN \* line 23: RuntimeError("FFmpeg is not installed. ...")
                /\ outcome = "ok" /\ hint
                /\ trace' = probed
                /\ fs' = Cleanup(fs, runs, audio_path)
                /\ Except(TRUE)
           ELSE CASE outcome = "ok" ->
                     /\ ~hint
                     /\ trace' = probed
                            \o <<Event("VideoFileClip", 30, TRUE, "tmp"),
                                 Event("write_audiofile", 32, TRUE, "wav")>>
                     /\ fs' = fs \cup {WavFile(runs)}
                     /\ audio_path' = "wav"
                     /\ process_path' = "wav"
                     /\ pc' = "load"
                     /\ UNCHANGED <<ffmpeg, file, runs, transcript, segments,
                                    subtitles, srt_content, vtt_content,
                                    pageOut, widgets, userText>>
                  [] outcome = "open fails" ->
                     \* line 30 (or video.audio is None): no .wav file yet
                     /\ trace' = Append(probed, Event("VideoFileClip", 30, FALSE, "tmp"))
                     /\ fs' = Cleanup(fs, runs, audio_path)
                     /\ Except(hint)
                  [] outcome = "write fails" ->
                     \* line 32 raises after the writer has created the file
                     /\ trace' = probed
                            \o <<Event("VideoFileClip", 30, TRUE, "tmp"),
                                 Event("write_audiofile", 32, FALSE, "wav")>>
                     /\ fs' = Cleanup(fs \cup {WavFile(runs)}, runs, audio_path)
                     /\ Except(hint)

\* lines 143-144: whisper.load_model(selected_model)
LoadModel(ok, hint) ==
    /\ pc = "load"
    /\ trace' = Append(trace, Event("load_model", 144, ok, "unset"))
    /\ IF ok
       THEN /\ ~hint
            /\ pc' = "transcribe"
            /\ UNCHANGED <<ffmpeg, file, runs, fs, runLocals, pageOut, widgets, userText>>
       ELSE /\ fs' = Cleanup(fs, runs, audio_path)
            /\ Except(hint)

\* line 148: model.transcribe(process_path, word_timestamps=True) raises
TranscribeFails(hint) ==
    /\ pc = "transcribe"
    /\ trace' = Append(trace, Event("transcribe", 148, FALSE, process_path))
    /\ fs' = Cleanup(fs, runs, audio_path)
    /\ Except(hint)

\* lines 148-216 and the finally block: recognition, the cue list, the two
\* documents and the three tabs
TranscribeAndRender(result) ==
    /\ pc = "transcribe"
    /\ trace' = trace
           \o <<Event("transcribe", 148, TRUE, process_path),
                Event("create_subtitle_timestamps", 151, TRUE, "unset"),
                Event("generate_srt_content", 178, TRUE, "unset"),
                Event("generate_vtt_content", 179, TRUE, "unset")>>
    /\ transcript' = result.text
    /\ segments' = result.segments
    /\ LET subs   == create_subtitle_timestamps(result.segments)
           srt    == generate_srt_content(subs)
           vtt    == generate_vtt_content(subs)
           \* st.text_area(value=srt_content): the widget's state if the
           \* front end sent one, else the default value
           edited == IF widgets.text # NoText THEN widgets.text ELSE srt
           base   == [l \in {"Download Full Transcript", "Download SRT", "Download VTT"}
                        |-> CASE l = "Download Full Transcript" -> result.text
                              [] l = "Download SRT" -> srt
                              [] l = "Download VTT" -> vtt]
           page   == {"uploader", "transcribe", "edit_area", "update"}
       IN  /\ subtitles' = subs
           /\ srt_content' = srt
           /\ vtt_content' = vtt
           /\ EndRun(page,
                     messages \cup {"success: Transcription completed!"},
                     IF widgets.update
                     THEN [l \in DOMAIN base \cup {"Download Edited SRT"}
                             |-> IF l = "Download Edited SRT" THEN edited ELSE base[l]]
                     ELSE base)
    /\ fs' = Cleanup(fs, runs, audio_path)
    /\ UNCHANGED <<ffmpeg, file, runs, audio_path, process_path, userText>>

Next ==
    \/ \E ext \in UploadExts : Upload(ext)
    \/ ClearUpload
    \/ PressTranscribe
    \/ \E t \in EditTexts : EditText(t)
    \/ PressUpdate
    \/ \E t \in EditTexts : EditAndPressUpdate(t)
    \/ \E t \in EditTexts : EditAndPressTranscribe(t)
    \/ EnvChange
    \/ RunTop
    \/ HandleVideo
    \/ \E o \in {"ok", "open fails", "write fails"}, h \in BOOLEAN : ExtractAudio(o, h)
    \/ \E ok \in BOOLEAN, h \in BOOLEAN : LoadModel(ok, h)
    \/ \E h \in BOOLEAN : TranscribeFails(h)
    \/ \E r \in Results : TranscribeAndRender(r)

Spec == Init /\ [][Next]_vars

-----------------------------------------------------------------------------
(* Properties of the subtitle functions, checked under SpecCore *)

Built == Returned("create_subtitle_timestamps")

\* digits ':' digits ':' digits ',' and exactly three digits
IsTimestampShape(s) ==
    LET k == Len(s) - 3
    IN  /\ k >= 6
        /\ s[k] = ","
        /\ \E i \in 2..(k - 4) : \E j \in (i + 2)..(k - 2) :
               /\ s[i] = ":" /\ s[j] = ":"
               /\ \A m \in (1..Len(s)) \ {i, j, k} : IsDigit(s[m])

\* t is s without its leading and trailing whitespace, the interior untouched
IsStripOf(t, s) ==
    /\ t = <<>> \/ (t[1] \notin Whitespace /\ t[Len(t)] \notin Whitespace)
    /\ \E a \in 0..(Len(s) - Len(t)) :
           /\ \A m \in 1..a : s[m] \in Whitespace
           /\ \A m \in (a + Len(t) + 1)..Len(s) : s[m] \in Whitespace
           /\ t = SubSeq(s, a + 1, a + Len(t))

HasNegative(segs) ==
    \E k \in 1..Len(segs) : segs[k].start < 0 \/ segs[k].end < 0

\* C1: for every segment whose start (end) is a non-negative duration, the
\* timestamp string create_subtitle_timestamps produced for it has length at
\* most 12 and the shape digits:digits:digits,ddd.
C1_TimestampShape ==
    Built =>
        \A k \in 1..Len(segments) :
            /\ segments[k].start >= 0 =>
                   /\ Len(subtitles[k].start) <= 12
                   /\ IsTimestampShape(subtitles[k].start)
            /\ segments[k].end >= 0 =>
                   /\ Len(subtitles[k].end) <= 12
                   /\ IsTimestampShape(subtitles[k].end)

\* C2: the cue list has the length of the segment list, and the cue at
\* 1-based position k carries index k: no gaps, no filtering, no merging.
C2_LengthAndIndex ==
    Built =>
        /\ Len(subtitles) = Len(segments)
        /\ \A k \in 1..Len(subtitles) : subtitles[k].index = k

C2_Witness ==
    /\ Built
    /\ Len(segments) = 2
    /\ segments[1] # segments[2]
    /\ subtitles[2].index = 2

\* C3: cue k has the text of segment k without its leading and trailing
\* whitespace, the formatted start and end of segment k, and is the cue the
\* builder makes of segment k alone (up to its index).
C3_CueOfSegment ==
    Built =>
        \A k \in 1..Len(segments) :
            /\ k <= Len(subtitles)
            /\ IsStripOf(subtitles[k].text, segments[k].text)
            /\ subtitles[k].start = FormatTimestamp(segments[k].start)
            /\ subtitles[k].end = FormatTimestamp(segments[k].end)
            /\ [subtitles[k] EXCEPT !.index = 1]
                   = create_subtitle_timestamps(<<segments[k]>>)[1]

C3_Witness ==
    /\ Built
    /\ \E k \in 1..Len(segments) :
           /\ segments[k].text = <<NL, "a", " ", "b", "\t">>
           /\ subtitles[k].text = <<"a", " ", "b">>
           /\ segments[k].start = 1200
           /\ subtitles[k].start = <<"0", ":", "0", "0", ":", "0", "1", ",", "2", "0", "0">>

\* index, newline, start ' --> ' end, newline, text, newline, newline
ExpectedSrtCue(c) ==
    IntToStr(c.index) \o <<"\n">> \o c.start \o <<" ", "-", "-", ">", " ">>
        \o c.end \o <<"\n">> \o c.text \o <<"\n", "\n">>

RECURSIVE ExpectedSrt(_)
ExpectedSrt(C) ==
    IF C = <<>> THEN <<>> ELSE ExpectedSrtCue(Head(C)) \o ExpectedSrt(Tail(C))

\* C4: the SRT document is the concatenation, in cue order, of index, newline,
\* start --> end, newline, text, newline, newline; it is empty for no cues
\* and otherwise ends with a blank line.
C4_SrtFormat ==
    Returned("generate_srt_content") =>
        /\ srt_content = ExpectedSrt(subtitles)
        /\ subtitles = <<>> => srt_content = <<>>
        /\ subtitles # <<>> =>
               /\ Len(srt_content) >= 2
               /\ srt_content[Len(srt_content)] = "\n"
               /\ srt_content[Len(srt_content) - 1] = "\n"

C4_Witness ==
    /\ Returned("generate_srt_content")
    /\ Len(subtitles) = 2
    /\ SubSeq(srt_content, 1, 2) = <<"1", "\n">>
    /\ \E k \in 1..(Len(srt_content) - 3) :
           SubSeq(srt_content, k, k + 3) = <<"\n", "\n", "2", "\n">>

\* start ' --> ' end, newline, text, newline, newline
ExpectedVttCue(c) ==
    c.start \o <<" ", "-", "-", ">", " ">> \o c.end \o <<"\n">>
        \o c.text \o <<"\n", "\n">>

RECURSIVE ExpectedVttCues(_)
ExpectedVttCues(C) ==
    IF C = <<>> THEN <<>>
    ELSE ExpectedVttCue(Head(C)) \o ExpectedVttCues(Tail(C))

\* the SRT text srt of the cues C with the index line of every cue removed;
\* <<"?">> where a cue of srt does not start with its index line
RECURSIVE WithoutIndexLines(_, _)
WithoutIndexLines(srt, C) ==
    IF C = <<>> THEN srt
    ELSE LET line == IntToStr(Head(C).index) \o <<"\n">>
             body == Len(Head(C).start) + 5 + Len(Head(C).end) + 1
                         + Len(Head(C).text) + 2
         IN  IF Len(srt) < Len(line) + body \/ SubSeq(srt, 1, Len(line)) # line
             THEN <<"?">>
             ELSE SubSeq(srt, Len(line) + 1, Len(line) + body)
                      \o WithoutIndexLines(
                             SubSeq(srt, Len(line) + body + 1, Len(srt)), Tail(C))

\* C5: the VTT document is 'WEBVTT', newline, newline, then per cue start -->
\* end, newline, text, newline, newline, without an index line; no cues give
\* the header alone; the cue part is the SRT document without its index lines.
C5_VttFormat ==
    Returned("generate_vtt_content") =>
        /\ vtt_content = <<"W", "E", "B", "V", "T", "T", "\n", "\n">>
                             \o ExpectedVttCues(subtitles)
        /\ subtitles = <<>> =>
               vtt_content = <<"W", "E", "B", "V", "T", "T", "\n", "\n">>
        /\ Returned("generate_srt_content") =>
               SubSeq(vtt_content, 9, Len(vtt_content))
                   = WithoutIndexLines(srt_content, subtitles)

C5_Witness ==
    /\ Returned("generate_vtt_content")
    /\ Returned("generate_srt_content")
    /\ Len(subtitles) = 2
    /\ Len(vtt_content) > 8
    /\ Len(srt_content) = Len(vtt_content) - 8 + 4

\* C7 as stated: a segment list holding a negative start or end makes
\* create_subtitle_timestamps fail instead of returning cues.
C7_NegativeFails ==
    (Called("create_subtitle_timestamps") /\ HasNegative(segments)) => ~Built

\* C7 as amended: a negative start or end does not make the builder fail; it
\* returns one cue per segment, and the string of a negative value starts
\* with '-' (the rendering of a negative timedelta, cut to 11 characters)
\* and is no timestamp.
C7_NegativeRendered ==
    (Called("create_subtitle_timestamps") /\ HasNegative(segments)) =>
        /\ Built
        /\ Len(subtitles) = Len(segments)
        /\ \A k \in 1..Len(segments) :
               /\ segments[k].start < 0 =>
                      /\ Len(subtitles[k].start) = TruncLen
                      /\ subtitles[k].start[1] = "-"
                      /\ ~IsTimestampShape(subtitles[k].start)
               /\ segments[k].end < 0 =>
                      /\ Len(subtitles[k].end) = TruncLen
                      /\ subtitles[k].end[1] = "-"
                      /\ ~IsTimestampShape(subtitles[k].end)

C7_Witness ==
    /\ Built
    /\ \E k \in 1..Len(segments) :
           /\ segments[k].start = -1500
           /\ subtitles[k].start
                  = <<"-", "1", " ", "d", "a", "y", ",", " ", "2", "3", ":">>

-----------------------------------------------------------------------------
(* Properties of the script, checked under Spec *)

\* C6 as stated: when the run requested by a change of the edit area's text
\* together with a press of 'Update Subtitles' has ended, 'Download Edited
\* SRT' is offered and its data is the text the user typed.
C6_EditedTextOffered ==
    (pc = "idle" /\ Called("edit") /\ Called("press Update Subtitles")) =>
        /\ "Download Edited SRT" \in DOMAIN downloads
        /\ downloads["Download Edited SRT"] = userText

\* C9 as stated: when a run has ended, no temporary file exists.
C9_TempFilesRemoved == pc = "idle" => fs = {}

Indices(call) == {k \in 1..Len(trace) : trace[k].call = call}

Probes(line) == {k \in Indices("check_ffmpeg") : trace[k].at = line}

\* C10: for an .mp4/.avi/.mkv/.mov upload the availability check of line 135
\* precedes extraction and a completed extraction precedes load_model and
\* transcribe; a check that reports the tool unavailable is followed by no
\* extraction and no recognition in the run, and the run ends with an error
\* message; for a .wav/.mp3/.m4a/.ogg upload extraction is never invoked and
\* transcribe is given the temporary copy of the upload.
C10_Order ==
    LET extraction  == Indices("extract_audio_from_video")
        work        == Indices("VideoFileClip") \cup Indices("write_audiofile")
        recognition == Indices("load_model") \cup Indices("transcribe")
        completed   == {k \in Indices("write_audiofile") : trace[k].ok}
    IN  /\ file \in {"mp4", "avi", "mkv", "mov"} =>
               /\ \A k \in extraction \cup work :
                      \E j \in Probes(135) : j < k /\ trace[j].ok
               /\ \A k \in recognition : \E j \in completed : j < k
               /\ pc \in {"load", "transcribe"} => completed # {}
        /\ (\E j \in Probes(135) : ~trace[j].ok) =>
               /\ extraction = {} /\ work = {} /\ recognition = {}
               /\ pc = "idle"
               /\ "error: Cannot process video files without FFmpeg" \in messages
        /\ (\E j \in Probes(22) : ~trace[j].ok) =>
               /\ work = {} /\ recognition = {}
               /\ pc = "idle"
               /\ "error: An error occurred" \in messages
        /\ file \in {"wav", "mp3", "m4a", "ogg"} =>
               /\ extraction = {} /\ work = {}
               /\ \A k \in Indices("transcribe") : trace[k].path = "tmp"
               /\ pc \in {"load", "transcribe"} => process_path = "tmp"

C10_Witness ==
    /\ pc = "idle"
    /\ file = "mov"
    /\ \E a, b, c, d \in 1..Len(trace) :
           /\ a < b /\ b < c /\ c < d
           /\ trace[a].call = "check_ffmpeg" /\ trace[a].at = 135 /\ trace[a].ok
           /\ trace[b].call = "write_audiofile" /\ trace[b].ok
           /\ trace[c].call = "load_model" /\ trace[c].ok
           /\ trace[d].call = "transcribe" /\ trace[d].ok /\ trace[d].path = "wav"

=============================================================================
